---- MODULE Spec2Model ----
(***************************************************************************)
(* node-ses: the request model (Email) and the client facade (SESClient).  *)
(*                                                                         *)
(* JavaScript values are represented as follows.                           *)
(*   - a string-valued property is a TLA+ string; the string Undefined     *)
(*     stands for the JavaScript value undefined;                          *)
(*   - a recipient property (to, cc, bcc, replyTo) of an options object is *)
(*     a record [kind, s, a]: undefined, a string s, or an array a;        *)
(*   - rawMessage is a record [present, bytes] (its bytes as integers);    *)
(*   - messageTags is a record [present, tags];                            *)
(*   - a parameter map (the object built by data()) is a function from     *)
(*     its keys (strings) to its values (strings).                         *)
(***************************************************************************)
EXTENDS Integers, Sequences, FiniteSets, Bags, TLC

\* ------------------------------------------------------------------ bounds
\* longest recipient / tag list the caller passes
MaxList == 2
\* longest rawMessage (in bytes) the caller passes
MaxRawLen == 3
\* number of properties the caller sets on an options literal (direct use of Email)
MaxFields == 3
\* number of send calls that may be suspended at the transport step together
MaxInFlight == 2

\* ------------------------------------------------------- JavaScript values
Undefined == "<undefined>"

\* JavaScript truthiness of a string-or-undefined value
Truthy(s) == s # Undefined /\ s # ""

\* a || b on string-or-undefined values
Or(a, b) == IF Truthy(a) THEN a ELSE b

NoRecipient == [kind |-> "undefined", s |-> "", a |-> <<>>]
Str(s) == [kind |-> "string", s |-> s, a |-> <<>>]
Arr(a) == [kind |-> "array", s |-> "", a |-> a]

\* truthiness of a recipient property: undefined and "" are falsy, any array is truthy
TruthyRecipient(r) == r.kind = "array" \/ (r.kind = "string" /\ r.s # "")

NoRaw == [present |-> FALSE, bytes |-> <<>>]
Raw(b) == [present |-> TRUE, bytes |-> b]

NoTags == [present |-> FALSE, tags |-> <<>>]
Tags(t) == [present |-> TRUE, tags |-> t]

SEND_EMAIL_ACTION == "SendEmail"
SEND_RAW_EMAIL_ACTION == "SendRawEmail"
DEFAULT_API_HOST == "https://email.us-east-1.amazonaws.com"

\* the options object {} : every property undefined
EmptyOptions ==
  [action |-> Undefined, key |-> Undefined, secret |-> Undefined, amazon |-> Undefined,
   from |-> Undefined, subject |-> Undefined, message |-> Undefined,
   altText |-> Undefined, rawMessage |-> NoRaw, configurationSet |-> Undefined,
   messageTags |-> NoTags, to |-> NoRecipient, cc |-> NoRecipient,
   bcc |-> NoRecipient, replyTo |-> NoRecipient]

\* ------------------------------------------------------------- Email (pure)
\* extractRecipient that keeps arrays and drops a single string
extractRecipientNoLift(options, prop) ==
  IF TruthyRecipient(options[prop])
    THEN (IF options[prop].kind = "array" THEN options[prop].a ELSE <<>>)
    ELSE <<>>

\* Email.prototype.extractRecipient: the value stored in this[prop]
extractRecipient(options, prop) ==
  IF TruthyRecipient(options[prop])
    THEN (IF options[prop].kind = "array" THEN options[prop].a ELSE <<options[prop].s>>)
    ELSE <<>>

\* function Email (options)
Email(options) ==
  [action |-> Or(options.action, SEND_EMAIL_ACTION),
   key |-> options.key,
   secret |-> options.secret,
   amazon |-> options.amazon,
   from |-> options.from,
   subject |-> options.subject,
   message |-> options.message,
   altText |-> options.altText,
   rawMessage |-> options.rawMessage,
   configurationSet |-> options.configurationSet,
   messageTags |-> options.messageTags,
   to |-> extractRecipient(options, "to"),
   cc |-> extractRecipient(options, "cc"),
   bcc |-> extractRecipient(options, "bcc"),
   replyTo |-> extractRecipient(options, "replyTo")]

\* data[key] = value
Put(d, key, value) == (key :> value) @@ d

\* list.forEach(function (to, i) { data[prefix + (i + 1)] = to; }), from index i on
RECURSIVE forEachMember(_, _, _, _)
forEachMember(d, list, prefix, i) ==
  IF i >= Len(list) THEN d
  ELSE forEachMember(Put(d, prefix \o ToString(i + 1), list[i + 1]), list, prefix, i + 1)

\* the same loop with the member index continuing from `base`
RECURSIVE forEachMemberFrom(_, _, _, _, _)
forEachMemberFrom(d, list, prefix, i, base) ==
  IF i >= Len(list) THEN d
  ELSE forEachMemberFrom(Put(d, prefix \o ToString(base + i + 1), list[i + 1]),
                         list, prefix, i + 1, base)

\* addDestination with one running member index shared by to, cc and bcc
addDestinationShared(self, d) ==
  LET d1 == forEachMemberFrom(d, self.to, "Destination.ToAddresses.member.", 0, 0)
      d2 == forEachMemberFrom(d1, self.cc, "Destination.CcAddresses.member.", 0,
                              Len(self.to))
  IN  forEachMemberFrom(d2, self.bcc, "Destination.BccAddresses.member.", 0,
                        Len(self.to) + Len(self.cc))

\* Email.prototype.addDestination
addDestination(self, d) ==
  LET d1 == forEachMember(d, self.to, "Destination.ToAddresses.member.", 0)
      d2 == forEachMember(d1, self.cc, "Destination.CcAddresses.member.", 0)
  IN  forEachMember(d2, self.bcc, "Destination.BccAddresses.member.", 0)

\* Email.prototype.addReplyTo
addReplyTo(self, d) == forEachMember(d, self.replyTo, "ReplyToAddresses.member.", 0)

\* messageTags.forEach(function (tagSpec, i) { ... }), from index i on
RECURSIVE forEachTag(_, _, _)
forEachTag(d, tags, i) ==
  IF i >= Len(tags) THEN d
  ELSE forEachTag(
         Put(Put(d, "Tags.member." \o ToString(i + 1) \o ".Name", tags[i + 1].name),
             "Tags.member." \o ToString(i + 1) \o ".Value", tags[i + 1].value),
         tags, i + 1)

\* Email.prototype.addSESHeaders
addSESHeaders(self, d) ==
  LET d1 == IF Truthy(self.configurationSet)
              THEN Put(d, "ConfigurationSetName", self.configurationSet) ELSE d
  IN  IF self.messageTags.present THEN forEachTag(d1, self.messageTags.tags, 0) ELSE d1

\* Email.prototype.addMessage
addMessage(self, d) ==
  LET d1 == IF Truthy(self.subject)
              THEN Put(Put(d, "Message.Subject.Data", self.subject),
                       "Message.Subject.Charset", "UTF-8")
              ELSE d
      d2 == IF Truthy(self.message)
              THEN Put(Put(d1, "Message.Body.Html.Data", self.message),
                       "Message.Body.Html.Charset", "UTF-8")
              ELSE d1
  IN  IF Truthy(self.altText)
        THEN Put(Put(d2, "Message.Body.Text.Data", self.altText),
                 "Message.Body.Text.Charset", "UTF-8")
        ELSE d2

\* the base64 alphabet
B64 ==
  <<"A","B","C","D","E","F","G","H","I","J","K","L","M","N","O","P",
    "Q","R","S","T","U","V","W","X","Y","Z","a","b","c","d","e","f",
    "g","h","i","j","k","l","m","n","o","p","q","r","s","t","u","v",
    "w","x","y","z","0","1","2","3","4","5","6","7","8","9","+","/">>

\* Buffer.from(bytes).toString('base64')
RECURSIVE Base64(_)
Base64(b) ==
  IF Len(b) = 0 THEN ""
  ELSE IF Len(b) = 1
    THEN B64[(b[1] \div 4) + 1] \o B64[((b[1] % 4) * 16) + 1] \o "=="
  ELSE IF Len(b) = 2
    THEN B64[(b[1] \div 4) + 1] \o B64[((b[1] % 4) * 16 + (b[2] \div 16)) + 1]
         \o B64[((b[2] % 16) * 4) + 1] \o "="
  ELSE B64[(b[1] \div 4) + 1] \o B64[((b[1] % 4) * 16 + (b[2] \div 16)) + 1]
       \o B64[((b[2] % 16) * 4 + (b[3] \div 64)) + 1] \o B64[(b[3] % 64) + 1]
       \o Base64(SubSeq(b, 4, Len(b)))

\* the result of a call that may throw: the value, or the exception
Returned(v) == [threw |-> FALSE, value |-> v]
Threw == [threw |-> TRUE, value |-> <<>>]

\* data() that adds the message payload whatever the action is
dataAlwaysMessage(self) ==
  LET d0 == Put(Put(Put(<<>>, "Action", self.action), "AWSAccessKeyId", self.key),
                "Source", self.from)
      d1 == addMessage(self, addSESHeaders(self, addReplyTo(self, addDestination(self, d0))))
  IN  IF self.action = SEND_RAW_EMAIL_ACTION
        THEN (IF self.rawMessage.present
                THEN Returned(Put(d1, "RawMessage.Data", Base64(self.rawMessage.bytes)))
                ELSE Threw)
        ELSE Returned(d1)

\* Email.prototype.data (Buffer.from(undefined) throws a TypeError)
data(self) ==
  LET d0 == Put(Put(Put(<<>>, "Action", self.action), "AWSAccessKeyId", self.key),
                "Source", self.from)
      d1 == addSESHeaders(self, addReplyTo(self, addDestination(self, d0)))
  IN  IF self.action = SEND_EMAIL_ACTION THEN Returned(addMessage(self, d1))
      ELSE IF self.action = SEND_RAW_EMAIL_ACTION
        THEN (IF self.rawMessage.present
                THEN Returned(Put(d1, "RawMessage.Data", Base64(self.rawMessage.bytes)))
                ELSE Threw)
      ELSE Returned(d1)

\* validate() with the sender checked before everything else
validateFromFirst(self) ==
  IF ~Truthy(self.from)
    THEN "From is required"
  ELSE IF self.action = SEND_EMAIL_ACTION
       /\ Len(self.to) = 0 /\ Len(self.cc) = 0 /\ Len(self.bcc) = 0
    THEN "To, Cc or Bcc is required"
  ELSE IF self.action = SEND_EMAIL_ACTION /\ ~Truthy(self.subject)
    THEN "Subject is required"
  ELSE IF self.action = SEND_RAW_EMAIL_ACTION
            /\ ~(self.rawMessage.present /\ Len(self.rawMessage.bytes) > 0)
    THEN "Raw message is required"
  ELSE Undefined

\* validate() with the subject checked before the recipients
validateSubjectFirst(self) ==
  IF self.action = SEND_EMAIL_ACTION /\ ~Truthy(self.subject)
    THEN "Subject is required"
  ELSE IF self.action = SEND_EMAIL_ACTION
       /\ Len(self.to) = 0 /\ Len(self.cc) = 0 /\ Len(self.bcc) = 0
    THEN "To, Cc or Bcc is required"
  ELSE IF self.action = SEND_RAW_EMAIL_ACTION
            /\ ~(self.rawMessage.present /\ Len(self.rawMessage.bytes) > 0)
    THEN "Raw message is required"
  ELSE IF ~Truthy(self.from)
    THEN "From is required"
  ELSE Undefined

\* Email.prototype.validate (Undefined: no error)
validate(self) ==
  IF self.action = SEND_EMAIL_ACTION
       /\ Len(self.to) = 0 /\ Len(self.cc) = 0 /\ Len(self.bcc) = 0
    THEN "To, Cc or Bcc is required"
  ELSE IF self.action = SEND_EMAIL_ACTION /\ ~Truthy(self.subject)
    THEN "Subject is required"
  ELSE IF self.action = SEND_RAW_EMAIL_ACTION
            /\ ~(self.rawMessage.present /\ Len(self.rawMessage.bytes) > 0)
    THEN "Raw message is required"
  ELSE IF ~Truthy(self.from)
    THEN "From is required"
  ELSE Undefined


\* ------------------------------------------------------------- SESClient
\* function SESClient (options); exports.amazon is DEFAULT_API_HOST
SESClient(options) ==
  [key |-> options.key,
   secret |-> options.secret,
   amazon |-> Or(options.amazon, DEFAULT_API_HOST)]

\* exports.createClient
createClient(options) == SESClient(options)

\* asyncSendEmail keeping an action the options object already carries
asyncSendEmailKeepAction(self, options) ==
  LET o == [options EXCEPT !.key = Or(options.key, self.key),
                           !.secret = Or(options.secret, self.secret),
                           !.amazon = Or(options.amazon, self.amazon),
                           !.action = Or(options.action, SEND_EMAIL_ACTION)]
  IN  [self |-> self, options |-> o, message |-> Email(o)]

\* SESClient.prototype.asyncSendEmail up to `await message.asyncSend()`: the client
\* and the caller's options object after the assignments, and the Email built
asyncSendEmail(self, options) ==
  LET o == [options EXCEPT !.key = Or(options.key, self.key),
                           !.secret = Or(options.secret, self.secret),
                           !.amazon = Or(options.amazon, self.amazon),
                           !.action = SEND_EMAIL_ACTION]
  IN  [self |-> self, options |-> o, message |-> Email(o)]

\* SESClient.prototype.asyncSendRawEmail up to `await message.asyncSend()`
asyncSendRawEmail(self, options) ==
  LET o == [options EXCEPT !.key = Or(options.key, self.key),
                           !.secret = Or(options.secret, self.secret),
                           !.amazon = Or(options.amazon, self.amazon),
                           !.action = SEND_RAW_EMAIL_ACTION]
  IN  [self |-> self, options |-> o, message |-> Email(o)]

\* ------------------------------------------------------- Email.asyncSend
NoResponse == [kind |-> "none", statusCode |-> 0, body |-> "", cause |-> ""]
Response(status, body) ==
  [kind |-> "response", statusCode |-> status, body |-> body, cause |-> ""]
TransportFailure(cause) ==
  [kind |-> "error", statusCode |-> 0, body |-> "", cause |-> cause]

\* an Error object: its message and its `response` property
Error(message, response) == [message |-> message, response |-> response]
NoError == Error("", NoResponse)

Pending == [kind |-> "pending", value |-> "", error |-> NoError]
Resolved(v) == [kind |-> "resolved", value |-> v, error |-> NoError]
Rejected(e) == [kind |-> "rejected", value |-> "", error |-> e]

NoCredentials == [present |-> FALSE, accessKeyId |-> "", secretAccessKey |-> ""]
NoRequest == [url |-> "", headers |-> <<>>, body |-> <<>>, service |-> "",
              credentials |-> NoCredentials]

\* Email.prototype.headers
headers(self) == <<>>

\* this.key && this.secret && { accessKeyId, secretAccessKey }
credentialsOf(self) ==
  IF Truthy(self.key) /\ Truthy(self.secret)
    THEN [present |-> TRUE, accessKeyId |-> self.key, secretAccessKey |-> self.secret]
    ELSE NoCredentials

\* asyncSend that signs and posts before it looks at the result of validate()
asyncSendStartPostFirst(self) ==
  LET inv == validate(self)
      d == data(self)
      req == [url |-> self.amazon, headers |-> headers(self),
              body |-> IF d.threw THEN <<>> ELSE d.value, service |-> "ses",
              credentials |-> credentialsOf(self)]
  IN  IF Truthy(inv)
        THEN [suspended |-> FALSE, invalid |-> inv, signed |-> 1, posted |-> 1,
              request |-> req, outcome |-> Rejected(Error(inv, NoResponse))]
        ELSE [suspended |-> TRUE, invalid |-> inv, signed |-> 1, posted |-> 1,
              request |-> req, outcome |-> Pending]

\* Email.prototype.asyncSend up to `await got.post(signedOpts)`: what validate()
\* returned, how often aws4.sign and got.post were called, and the request posted
\* (its body is the parameter map that querystring.stringify encodes)
asyncSendStart(self) ==
  LET inv == validate(self)
      d == data(self)
  IN  IF Truthy(inv)
        THEN [suspended |-> FALSE, invalid |-> inv, signed |-> 0, posted |-> 0,
              request |-> NoRequest, outcome |-> Rejected(Error(inv, NoResponse))]
      ELSE IF d.threw
        THEN [suspended |-> FALSE, invalid |-> inv, signed |-> 0, posted |-> 0,
              request |-> NoRequest,
              outcome |-> Rejected(Error("TypeError", NoResponse))]
      ELSE [suspended |-> TRUE, invalid |-> inv, signed |-> 1, posted |-> 1,
            request |-> [url |-> self.amazon, headers |-> headers(self),
                         body |-> d.value, service |-> "ses",
                         credentials |-> credentialsOf(self)],
            outcome |-> Pending]

\* the response mapping with the upper bound of the success range included
asyncSendResumeInclusive(call, result) ==
  [call EXCEPT
     !.result = result,
     !.outcome =
       IF result.kind = "response"
         THEN (IF result.statusCode < 200 \/ result.statusCode > 400
                 THEN Rejected(Error("Request error with statusCode: "
                                       \o ToString(result.statusCode), result))
                 ELSE Resolved(result.body))
         ELSE Rejected(Error(result.cause, NoResponse))]

\* a transport failure answered by posting the request once more and resolving
asyncSendResumeRetry(call, result) ==
  [call EXCEPT
     !.result = result,
     !.posted = IF result.kind = "response" THEN @ ELSE @ + 1,
     !.outcome =
       IF result.kind = "response"
         THEN (IF result.statusCode < 200 \/ result.statusCode >= 400
                 THEN Rejected(Error("Request error with statusCode: "
                                       \o ToString(result.statusCode), result))
                 ELSE Resolved(result.body))
         ELSE Resolved("")]

\* Email.prototype.asyncSend from the `await got.post(signedOpts)` on: the call once
\* the transport returned a response or threw
asyncSendResume(call, result) ==
  [call EXCEPT
     !.result = result,
     !.outcome =
       IF result.kind = "response"
         THEN (IF result.statusCode < 200 \/ result.statusCode >= 400
                 THEN Rejected(Error("Request error with statusCode: "
                                       \o ToString(result.statusCode), result))
                 ELSE Resolved(result.body))
         ELSE Rejected(Error(result.cause, NoResponse))]

\* ---------------------------------------------------------------- state
\* direct use of Email: the options literal, how far the caller is, the Email
\* object, what validate() returned and what data() returned
VARIABLES literal, stage, email, invalid, params
\* use of a client: the SESClient instances, the caller's options objects, what
\* the caller wrote into each of them, the calls suspended at the transport step
\* and the call that finished last
VARIABLES clients, heap, supplied, inflight, completed

pureVars == <<literal, stage, email, invalid, params>>
sendVars == <<clients, heap, supplied, inflight, completed>>
vars == <<literal, stage, email, invalid, params,
          clients, heap, supplied, inflight, completed>>

ClientIds == {"c1", "c2"}
OptIds == {"o1", "o2"}

\* the options each client is created with
ClientOptions(c) ==
  IF c = "c1"
    THEN [key |-> "K1", secret |-> "S1", amazon |-> "https://e1.example"]
    ELSE [key |-> "K2", secret |-> "S2", amazon |-> Undefined]

InitialClients(ids) == [c \in ids |-> createClient(ClientOptions(c))]

NoCall ==
  [client |-> "none", opt |-> "none", op |-> "none", email |-> Email(EmptyOptions),
   invalid |-> Undefined, signed |-> 0, posted |-> 0, request |-> NoRequest,
   result |-> NoResponse, outcome |-> Pending]

\* ------------------------------------------------ direct use of Email (pure)
\* The state of a caller that builds an options literal, constructs an Email
\* from it (exports.Email) and calls validate() and data() on it.

\* the i-th address / tag / raw message the caller uses
Address(i) == "r" \o ToString(i) \o "@x.com"
AddressList(n) == [i \in 1..n |-> Address(i)]
TagList(n) == [i \in 1..n |-> [name |-> "n" \o ToString(i), value |-> "v" \o ToString(i)]]
Hello == <<72, 101, 108, 108, 111>>
RawBytes(n) == [i \in 1..n |-> Hello[((i - 1) % 5) + 1]]

RecipientProps == {"to", "cc", "bcc", "replyTo"}
Props == {"action", "key", "from", "subject", "message", "altText", "rawMessage",
          "configurationSet", "messageTags"} \cup RecipientProps

\* the values the caller gives to a property
PropValues(p) ==
  CASE p = "action" -> {SEND_EMAIL_ACTION, SEND_RAW_EMAIL_ACTION}
    [] p = "key" -> {"AKID"}
    [] p = "from" -> {"", "from@x.com"}
    [] p = "subject" -> {"", "hi"}
    [] p = "message" -> {"<p>hi</p>"}
    [] p = "altText" -> {"hi"}
    [] p = "rawMessage" -> {Raw(RawBytes(n)) : n \in 0..MaxRawLen}
    [] p = "configurationSet" -> {"cfg"}
    [] p = "messageTags" -> {Tags(TagList(n)) : n \in 0..MaxList}
    [] OTHER -> {Str(""), Str(Address(1))} \cup {Arr(AddressList(n)) : n \in 0..MaxList}

NumSet(o) == Cardinality({p \in Props : o[p] # EmptyOptions[p]})

NoEmail == Email(EmptyOptions)

InitPure ==
  /\ literal = EmptyOptions
  /\ stage = "build"
  /\ email = NoEmail
  /\ invalid = Undefined
  /\ params = Threw
  /\ clients = InitialClients(ClientIds)
  /\ heap = [o \in OptIds |-> EmptyOptions]
  /\ supplied = heap
  /\ inflight = EmptyBag
  /\ completed = NoCall

\* the caller writes one more property of the options literal
SetOption ==
  /\ stage = "build"
  /\ NumSet(literal) < MaxFields
  /\ \E p \in Props :
       /\ literal[p] = EmptyOptions[p]
       /\ \E v \in PropValues(p) : literal' = [literal EXCEPT ![p] = v]
  /\ UNCHANGED <<stage, email, invalid, params>>
  /\ UNCHANGED sendVars

\* new Email(options)
NewEmail ==
  /\ stage = "build"
  /\ email' = Email(literal)
  /\ stage' = "constructed"
  /\ UNCHANGED <<literal, invalid, params>>
  /\ UNCHANGED sendVars

\* email.validate()
Validate ==
  /\ stage = "constructed"
  /\ invalid' = validate(email)
  /\ stage' = "validated"
  /\ UNCHANGED <<literal, email, params>>
  /\ UNCHANGED sendVars

\* email.data()
Data ==
  /\ stage = "validated"
  /\ params' = data(email)
  /\ stage' = "serialized"
  /\ UNCHANGED <<literal, email, invalid>>
  /\ UNCHANGED sendVars

NextPure == SetOption \/ NewEmail \/ Validate \/ Data

SpecPure == InitPure /\ [][NextPure]_vars

\* ------------------------------------------------------ use of a client
\* the options objects the caller passes: a message that is valid for both
\* operations, given without credentials, with each one of key, secret and amazon,
\* and with all three; and the same message without a subject, and without a sender
ValidOptions ==
  [EmptyOptions EXCEPT !.from = "from@x.com", !.to = Str(Address(1)),
                       !.subject = "hi", !.message = "<p>hi</p>",
                       !.rawMessage = Raw(Hello)]

CallerOptions ==
  {ValidOptions,
   [ValidOptions EXCEPT !.key = "K9"],
   [ValidOptions EXCEPT !.secret = "S9"],
   [ValidOptions EXCEPT !.amazon = "https://e9.example"],
   [ValidOptions EXCEPT !.key = "K9", !.secret = "S9", !.amazon = "https://e9.example"],
   [ValidOptions EXCEPT !.subject = Undefined],
   [ValidOptions EXCEPT !.from = Undefined]}

\* what the transport answers
Responses ==
  {Response(199, "Early"), Response(200, "OK123"), Response(399, "Moved"),
   Response(400, "BadRequest"), Response(500, "ServerFail")}
Failures == {TransportFailure("ECONNRESET")}

InitSend(ids, objects) ==
  /\ clients = InitialClients(ids)
  /\ heap \in [objects -> CallerOptions]
  /\ supplied = heap
  /\ inflight = EmptyBag
  /\ completed = NoCall
  /\ literal = EmptyOptions
  /\ stage = "build"
  /\ email = NoEmail
  /\ invalid = Undefined
  /\ params = Threw

\* one client, called with either of two options objects
InitOneClient == InitSend({"c1"}, OptIds)
\* two clients, called with one and the same options object
InitSharedOptions == InitSend(ClientIds, {"o1"})

\* the call made of the client's part `r` and of asyncSend's synchronous part
CallOf(c, o, op, r) ==
  LET st == asyncSendStart(r.message)
  IN  [client |-> c, opt |-> o, op |-> op, email |-> r.message,
       invalid |-> st.invalid, signed |-> st.signed, posted |-> st.posted,
       request |-> st.request, result |-> NoResponse, outcome |-> st.outcome]

\* a call runs without suspension until got.post: it either fails before the
\* transport is reached or is suspended there
Begin(c, o, op, r) ==
  LET call == CallOf(c, o, op, r)
  IN  /\ BagCardinality(inflight) < MaxInFlight
      /\ clients' = [clients EXCEPT ![c] = r.self]
      /\ heap' = [heap EXCEPT ![o] = r.options]
      /\ IF call.outcome.kind = "pending"
           THEN inflight' = inflight (+) SetToBag({call}) /\ UNCHANGED completed
           ELSE completed' = call /\ UNCHANGED inflight
      /\ UNCHANGED supplied
      /\ UNCHANGED pureVars

\* client.asyncSendEmail(options)
SendEmail ==
  \E c \in DOMAIN clients : \E o \in DOMAIN heap :
    Begin(c, o, "asyncSendEmail", asyncSendEmail(clients[c], heap[o]))

\* client.asyncSendRawEmail(options)
SendRawEmail ==
  \E c \in DOMAIN clients : \E o \in DOMAIN heap :
    Begin(c, o, "asyncSendRawEmail", asyncSendRawEmail(clients[c], heap[o]))

\* got.post returns a response to a suspended call
Respond ==
  \E call \in BagToSet(inflight) : \E resp \in Responses :
    /\ inflight' = inflight (-) SetToBag({call})
    /\ completed' = asyncSendResume(call, resp)
    /\ UNCHANGED <<clients, heap, supplied>>
    /\ UNCHANGED pureVars

\* got.post throws in a suspended call
Fail ==
  \E call \in BagToSet(inflight) : \E f \in Failures :
    /\ inflight' = inflight (-) SetToBag({call})
    /\ completed' = asyncSendResume(call, f)
    /\ UNCHANGED <<clients, heap, supplied>>
    /\ UNCHANGED pureVars

Next == SendEmail \/ SendRawEmail \/ Respond \/ Fail

SpecOneClient == InitOneClient /\ [][Next]_vars
SpecSharedOptions == InitSharedOptions /\ [][Next]_vars

\* ================================================================ claims
\* ---------------------------------------------------------- use of a client
\* the calls that are suspended or have finished
Calls == BagToSet(inflight) \cup (IF completed.client = "none" THEN {} ELSE {completed})

\* C1: a call whose resolved intent fails validate() is rejected with an error
\* whose message is exactly the description validate() returned, and neither
\* aws4.sign nor got.post is invoked in that call; no such call is ever suspended at
\* the transport.
C1_ValidationFailsBeforeTransport ==
  \A call \in Calls :
    Truthy(validate(call.email)) =>
      /\ call.outcome = Rejected(Error(validate(call.email), NoResponse))
      /\ call.signed = 0
      /\ call.posted = 0
      /\ call.result = NoResponse
      /\ call \notin BagToSet(inflight)

\* a SendEmail call without a subject has failed, the transport untouched
C1_Witness ==
  /\ completed.op = "asyncSendEmail"
  /\ completed.email.subject = Undefined
  /\ completed.outcome.kind = "rejected"
  /\ completed.outcome.error.message = "Subject is required"
  /\ completed.posted = 0

\* C2: a validated call to which the transport returned a response resolves with
\* the raw body when the status code is in [200, 400), and is otherwise rejected
\* with an error that carries that status code and that body; never both, never
\* neither.
C2_ResponseMapping ==
  completed.result.kind = "response" =>
    LET sc == completed.result.statusCode
        body == completed.result.body
    IN  /\ completed.outcome.kind \in {"resolved", "rejected"}
        /\ (sc >= 200 /\ sc < 400) => completed.outcome = Resolved(body)
        /\ ~(sc >= 200 /\ sc < 400) =>
             /\ completed.outcome.kind = "rejected"
             /\ completed.outcome.error.response.statusCode = sc
             /\ completed.outcome.error.response.body = body

\* the transport answered 500 "ServerFail" and the call was rejected with both
C2_Witness ==
  /\ completed.result = Response(500, "ServerFail")
  /\ completed.outcome.kind = "rejected"
  /\ completed.outcome.error.response.statusCode = 500
  /\ completed.outcome.error.response.body = "ServerFail"

\* C3: a call that passes validation invokes the transport exactly once; when that
\* invocation fails without a response the call is rejected with the underlying
\* cause and the transport is not invoked again; a call that did not get a response
\* in [200, 400) never resolves.
C3_PostedOnceNoRetry ==
  \A call \in Calls :
    /\ ~Truthy(validate(call.email)) => call.posted = 1
    /\ call.result.kind = "error" =>
         /\ call.posted = 1
         /\ call.outcome = Rejected(Error(call.result.cause, NoResponse))
    /\ (call \notin BagToSet(inflight)
          /\ ~(call.result.kind = "response" /\ call.result.statusCode >= 200
                 /\ call.result.statusCode < 400)) =>
         call.outcome.kind = "rejected"

\* the transport threw in a validated call, which was rejected with the cause
C3_Witness ==
  /\ completed.result = TransportFailure("ECONNRESET")
  /\ completed.outcome.kind = "rejected"
  /\ completed.outcome.error.message = "ECONNRESET"
  /\ completed.posted = 1

\* the value of key, secret or amazon a call is meant to use: the caller's when
\* the caller gave one, the client's default otherwise
Intended(call, p) ==
  IF Truthy(supplied[call.opt][p]) THEN supplied[call.opt][p]
  ELSE InitialClients(DOMAIN clients)[call.client][p]

\* C4: in every call, each of key, secret and endpoint used for the request is
\* the value the caller supplied when they supplied one and otherwise the default
\* of the client the call was made on, also when the same options object is passed
\* to calls on different clients.
C4_PerCallElseClientDefault ==
  \A call \in BagToSet(inflight) :
    /\ call.email.key = Intended(call, "key")
    /\ call.email.secret = Intended(call, "secret")
    /\ call.email.amazon = Intended(call, "amazon")
    /\ call.request.url = Intended(call, "amazon")
    /\ call.request.body["AWSAccessKeyId"] = Intended(call, "key")

\* the call (c, o, op) as it runs alone: on the client as created and on the
\* options object as the caller wrote it
AloneCall(c, o, op) ==
  CallOf(c, o, op,
         IF op = "asyncSendEmail"
           THEN asyncSendEmail(InitialClients(DOMAIN clients)[c], supplied[o])
           ELSE asyncSendRawEmail(InitialClients(DOMAIN clients)[c], supplied[o]))

\* C5: under every interleaving of calls on one client, each call builds the same
\* Email, posts the same request (action, parameter map, credentials) and has the
\* same outcome for its transport result as when it runs alone, and the client's
\* key, secret and amazon never change.
C5_ConcurrentCallsIndependent ==
  /\ clients = InitialClients(DOMAIN clients)
  /\ \A call \in Calls :
       LET alone == AloneCall(call.client, call.opt, call.op)
       IN  /\ call.email = alone.email
           /\ call.request = alone.request
           /\ call.outcome =
                IF call.result.kind = "none" THEN alone.outcome
                ELSE asyncSendResume(alone, call.result).outcome

\* two calls of different operations on one options object are suspended together
C5_Witness ==
  \E a \in BagToSet(inflight) : \E b \in BagToSet(inflight) :
    /\ a.opt = b.opt
    /\ a.client = b.client
    /\ a.op = "asyncSendRawEmail"
    /\ b.op = "asyncSendEmail"

\* ------------------------------------------------------ direct use of Email
Empty(s) == s = Undefined \/ s = ""

\* C6 as stated: a SendRawEmail intent with an empty `from` yields "From is
\* required", even when rawMessage is empty too.
C6_FromWinsOverRawMessage ==
  (stage \in {"validated", "serialized"}
     /\ email.action = SEND_RAW_EMAIL_ACTION /\ Empty(email.from)) =>
    invalid = "From is required"

\* C6 as amended: a SendRawEmail intent with an empty `from` yields "From is
\* required" when its rawMessage is non-empty, and "Raw message is required" when
\* its rawMessage is empty or absent.
C6_FromAfterRawMessage ==
  (stage \in {"validated", "serialized"}
     /\ email.action = SEND_RAW_EMAIL_ACTION /\ Empty(email.from)) =>
    invalid = IF email.rawMessage.present /\ Len(email.rawMessage.bytes) > 0
                THEN "From is required"
                ELSE "Raw message is required"

\* a raw intent with a raw message and no sender was validated
C6_Witness ==
  /\ stage = "validated"
  /\ email.action = SEND_RAW_EMAIL_ACTION
  /\ Empty(email.from)
  /\ Len(email.rawMessage.bytes) > 0
  /\ invalid = "From is required"

\* C7: validate() returns the description of the first violated rule in the order
\* (1) SendEmail without recipients, (2) SendEmail without subject, (3)
\* SendRawEmail without raw message, (4) no sender, and nothing when no rule is
\* violated.
C7_FirstViolatedRule ==
  stage \in {"validated", "serialized"} =>
    LET r1 == email.action = SEND_EMAIL_ACTION
                /\ email.to = <<>> /\ email.cc = <<>> /\ email.bcc = <<>>
        r2 == email.action = SEND_EMAIL_ACTION /\ Empty(email.subject)
        r3 == email.action = SEND_RAW_EMAIL_ACTION
                /\ (~email.rawMessage.present \/ email.rawMessage.bytes = <<>>)
        r4 == Empty(email.from)
    IN  /\ r1 => invalid = "To, Cc or Bcc is required"
        /\ (~r1 /\ r2) => invalid = "Subject is required"
        /\ (~r1 /\ ~r2 /\ r3) => invalid = "Raw message is required"
        /\ (~r1 /\ ~r2 /\ ~r3 /\ r4) => invalid = "From is required"
        /\ (~r1 /\ ~r2 /\ ~r3 /\ ~r4) => invalid = Undefined

\* a SendEmail intent without recipients, subject and sender was validated
C7_Witness ==
  /\ stage = "validated"
  /\ email.action = SEND_EMAIL_ACTION
  /\ email.to = <<>> /\ email.cc = <<>> /\ email.bcc = <<>>
  /\ literal.subject = ""
  /\ Empty(email.from)
  /\ invalid = "To, Cc or Bcc is required"

\* the member indices k in 0..MaxIndex for which the map has the key prefix k suffix
MaxIndex == 4 * MaxList + 2
MemberIndices(d, prefix, suffix) ==
  {k \in 0..MaxIndex : (prefix \o ToString(k) \o suffix) \in DOMAIN d}

MemberPrefix(p) ==
  CASE p = "to" -> "Destination.ToAddresses.member."
    [] p = "cc" -> "Destination.CcAddresses.member."
    [] p = "bcc" -> "Destination.BccAddresses.member."
    [] p = "replyTo" -> "ReplyToAddresses.member."

\* C8: for each list (to, cc, bcc, replyTo, messageTags) of length n the parameter
\* map has exactly the member indices 1..n of that list, member k holding the k-th
\* element, whatever the other lists are.
C8_MemberIndices ==
  (stage = "serialized" /\ ~params.threw) =>
    LET d == params.value
        tags == email.messageTags.tags
    IN  /\ \A p \in RecipientProps :
             /\ MemberIndices(d, MemberPrefix(p), "") = 1..Len(email[p])
             /\ \A k \in 1..Len(email[p]) :
                  d[MemberPrefix(p) \o ToString(k)] = email[p][k]
        /\ MemberIndices(d, "Tags.member.", ".Name") = 1..Len(tags)
        /\ MemberIndices(d, "Tags.member.", ".Value") = 1..Len(tags)
        /\ \A k \in 1..Len(tags) :
             /\ d["Tags.member." \o ToString(k) \o ".Name"] = tags[k].name
             /\ d["Tags.member." \o ToString(k) \o ".Value"] = tags[k].value

\* an intent with one `to`, two `cc` and one tag was serialized
C8_Witness ==
  /\ stage = "serialized"
  /\ ~params.threw
  /\ Len(email.to) = 1
  /\ Len(email.cc) = 2
  /\ Len(email.messageTags.tags) = 1

\* C9: the map has Message.Subject.*, Message.Body.Html.* and Message.Body.Text.*
\* exactly when the action is SendEmail and subject, message and altText are
\* non-empty, RawMessage.Data exactly when the action is SendRawEmail, never a
\* Message.* key together with RawMessage.Data, and always Action, AWSAccessKeyId
\* and Source.
C9_PayloadKeys ==
  (stage = "serialized" /\ ~params.threw) =>
    LET d == params.value
        keys == DOMAIN params.value
        isEmail == email.action = SEND_EMAIL_ACTION
        messageKeys == {"Message.Subject.Data", "Message.Subject.Charset",
                        "Message.Body.Html.Data", "Message.Body.Html.Charset",
                        "Message.Body.Text.Data", "Message.Body.Text.Charset"}
        Pair(dataKey, charsetKey, v) ==
          /\ dataKey \in keys <=> (isEmail /\ ~Empty(v))
          /\ charsetKey \in keys <=> (isEmail /\ ~Empty(v))
          /\ dataKey \in keys => (d[dataKey] = v /\ d[charsetKey] = "UTF-8")
    IN  /\ Pair("Message.Subject.Data", "Message.Subject.Charset", email.subject)
        /\ Pair("Message.Body.Html.Data", "Message.Body.Html.Charset", email.message)
        /\ Pair("Message.Body.Text.Data", "Message.Body.Text.Charset", email.altText)
        /\ "RawMessage.Data" \in keys <=> email.action = SEND_RAW_EMAIL_ACTION
        /\ "RawMessage.Data" \in keys => messageKeys \cap keys = {}
        /\ {"Action", "AWSAccessKeyId", "Source"} \subseteq keys
        /\ d["Action"] = email.action
        /\ d["AWSAccessKeyId"] = email.key
        /\ d["Source"] = email.from

\* a raw intent that also has a subject was serialized
C9_Witness ==
  /\ stage = "serialized"
  /\ ~params.threw
  /\ email.action = SEND_RAW_EMAIL_ACTION
  /\ email.subject = "hi"
  /\ "RawMessage.Data" \in DOMAIN params.value

\* the literal with property p given as the array a
WithArray(p, a) == [literal EXCEPT ![p] = Arr(a)]
SameAsArray(p, a) ==
  /\ data(Email(WithArray(p, a))) = params
  /\ validate(Email(WithArray(p, a))) = invalid

\* C10 as stated: a recipient property given as a single string s yields the same
\* parameter map and the same validate() result as the one-element list [s], and
\* an absent property the same as the empty list.
C10_StringIsOneElementList ==
  stage = "serialized" =>
    \A p \in RecipientProps :
      /\ literal[p].kind = "string" => SameAsArray(p, <<literal[p].s>>)
      /\ literal[p].kind = "undefined" => SameAsArray(p, <<>>)

\* C10 as amended: a recipient property given as a single non-empty string s
\* yields the same parameter map and validate() result as the list [s]; an absent
\* property, and the empty string, yield the same as the empty list.
C10_NonEmptyStringIsOneElementList ==
  stage = "serialized" =>
    \A p \in RecipientProps :
      /\ (literal[p].kind = "string" /\ literal[p].s # "") =>
           SameAsArray(p, <<literal[p].s>>)
      /\ (literal[p].kind = "string" /\ literal[p].s = "") => SameAsArray(p, <<>>)
      /\ literal[p].kind = "undefined" => SameAsArray(p, <<>>)

\* an intent whose `to` is a single address was validated and serialized
C10_Witness ==
  /\ stage = "serialized"
  /\ ~params.threw
  /\ literal.to = Str(Address(1))
  /\ params.value["Destination.ToAddresses.member.1"] = Address(1)

====
